---- MODULE Spec2Model ----
(***************************************************************************)
(* Model of the Dreamhost DNS updater (main.go, and the variant of it that *)
(* adds the prometheus gauge and the /healthz and /metrics endpoints).     *)
(*                                                                         *)
(* Strings that the program parses or compares character by character (the *)
(* text returned by the IP lookup service, the value of a DNS record) are  *)
(* sequences of one-character strings.  An error is the chain of messages  *)
(* that fmt.Errorf("...: %w") builds, outermost first; nil is <<>>.        *)
(***************************************************************************)
EXTENDS Integers, Sequences, FiniteSets, TLC

\* ------------------------------------------------------------------ bounds
\* number of records the provider holds in the initial state
MaxRecords == 2
\* number of times the ticker fires (the clock advances one period a tick)
MaxTicks == 2

\* ------------------------------------------------------------- input sets
Target == "h.example.com"
Other == "www.example.com"

IPa == <<"1", ".", "2", ".", "3", ".", "4">>
IPb == <<"9", ".", "9", ".", "9", ".", "9">>
IPc == <<":", ":", "0", "1">>

\* texts the IP lookup service may answer with
Bodies ==
  { IPa, IPb, IPc,
    <<"n", "o", "t", "-", "a", "n", "-", "i", "p">>,
    <<"1", ".", "2", ".", "3">>,
    <<"2", "5", "6", ".", "1", ".", "1", ".", "1">>,
    <<"0", "1", ".", "2", ".", "3", ".", "4">>,
    <<"1", ".", "2", ".", "3", ".", "4", "\n">>,
    <<"1", "2", "3", "4">>,
    <<":", ":", "f", "f", "f", "f", ":", "9", ".", "9", ".", "9", ".", "9">>,
    <<>> }

\* records the provider may hold when the program starts
Rec(t, r, v) == [Type |-> t, Record |-> r, Value |-> v]

\* the nil *Record that json.Unmarshal makes of a null element of the list
NilRecord == Rec("<nil>", "<nil>", <<>>)

\* what the search for the match gives when it dereferences a nil *Record
Panic == -1

InitialRecords ==
  { Rec("A", Target, IPa), Rec("A", Target, IPb),
    Rec("A", Other, IPb), Rec("CNAME", Target, IPb) }

\* sequences over S of length at most n in which no element occurs twice
RECURSIVE SeqsNoDup(_, _)
SeqsNoDup(S, n) ==
  IF n = 0 THEN { <<>> }
  ELSE LET shorter == SeqsNoDup(S, n - 1)
           longest == { t \in shorter : Len(t) = n - 1 }
       IN shorter \cup
          UNION { { Append(t, x) :
                      x \in { y \in S : \A i \in 1..Len(t) : t[i] # y } } :
                  t \in longest }

\* ------------------------------------------------- net.ParseIP, IP.String
\* the nil IP
NoIP == <<>>

DecDigits == <<"0", "1", "2", "3", "4", "5", "6", "7", "8", "9">>
HexLower == DecDigits \o <<"a", "b", "c", "d", "e", "f">>
HexUpper == DecDigits \o <<"A", "B", "C", "D", "E", "F">>

IsDigit(c) == \E k \in 1..10 : DecDigits[k] = c
DigitVal(c) == (CHOOSE k \in 1..10 : DecDigits[k] = c) - 1
IsHex(c) == \E k \in 1..16 : HexLower[k] = c \/ HexUpper[k] = c
HexVal(c) == (CHOOSE k \in 1..16 : HexLower[k] = c \/ HexUpper[k] = c) - 1

Drop(s, k) == SubSeq(s, k + 1, Len(s))

\* dtoi: decimal to integer; n the value, i the characters consumed
RECURSIVE dtoiFrom(_, _, _)
dtoiFrom(s, i, n) ==
  IF i < Len(s) /\ IsDigit(s[i + 1])
  THEN LET n2 == n * 10 + DigitVal(s[i + 1])
       IN IF n2 >= 16777215 THEN [n |-> 16777215, i |-> i, ok |-> FALSE]
          ELSE dtoiFrom(s, i + 1, n2)
  ELSE IF i = 0 THEN [n |-> 0, i |-> 0, ok |-> FALSE]
       ELSE [n |-> n, i |-> i, ok |-> TRUE]

dtoi(s) == dtoiFrom(s, 0, 0)

\* xtoi: hexadecimal to integer
RECURSIVE xtoiFrom(_, _, _)
xtoiFrom(s, i, n) ==
  IF i < Len(s) /\ IsHex(s[i + 1])
  THEN LET n2 == n * 16 + HexVal(s[i + 1])
       IN IF n2 >= 16777215 THEN [n |-> 0, i |-> i, ok |-> FALSE]
          ELSE xtoiFrom(s, i + 1, n2)
  ELSE IF i = 0 THEN [n |-> 0, i |-> 0, ok |-> FALSE]
       ELSE [n |-> n, i |-> i, ok |-> TRUE]

xtoi(s) == xtoiFrom(s, 0, 0)

\* the 16-byte form of the IPv4 address a.b.c.d
IPv4(a, b, c, d) == <<0, 0, 0, 0, 0, 0, 0, 0, 0, 0, 255, 255, a, b, c, d>>

\* parseIPv4: i octets parsed into p, s the text left
RECURSIVE parseIPv4From(_, _, _)
parseIPv4From(s, i, p) ==
  IF i = 4
  THEN IF Len(s) # 0 THEN NoIP ELSE IPv4(p[1], p[2], p[3], p[4])
  ELSE IF Len(s) = 0 THEN NoIP
  ELSE IF i > 0 /\ s[1] # "." THEN NoIP
  ELSE LET s1 == IF i > 0 THEN Tail(s) ELSE s
           d == dtoi(s1)
       IN IF ~d.ok \/ d.n > 255 THEN NoIP
          ELSE IF d.i > 1 /\ s1[1] = "0" THEN NoIP
          ELSE parseIPv4From(Drop(s1, d.i), i + 1, Append(p, d.n))

parseIPv4(s) == parseIPv4From(s, 0, <<>>)

\* the end of parseIPv6: the whole text used, the ellipsis expanded
v6Finish(s, bs, ellipsis) ==
  IF Len(s) # 0 THEN NoIP
  ELSE IF Len(bs) < 16
  THEN IF ellipsis < 0 THEN NoIP
       ELSE SubSeq(bs, 1, ellipsis)
            \o [k \in 1..(16 - Len(bs)) |-> 0]
            \o SubSeq(bs, ellipsis + 1, Len(bs))
  ELSE IF ellipsis >= 0 THEN NoIP ELSE bs

\* the loop of parseIPv6: bs the bytes parsed so far (i = Len(bs))
RECURSIVE parseIPv6Loop(_, _, _)
parseIPv6Loop(s, bs, ellipsis) ==
  LET i == Len(bs) IN
  IF i >= 16 THEN v6Finish(s, bs, ellipsis)
  ELSE LET x == xtoi(s) IN
    IF ~x.ok \/ x.n > 65535 THEN NoIP
    ELSE IF x.i < Len(s) /\ s[x.i + 1] = "."
    THEN IF ellipsis < 0 /\ i # 12 THEN NoIP
         ELSE IF i + 4 > 16 THEN NoIP
         ELSE LET ip4 == parseIPv4(s)
              IN IF ip4 = NoIP THEN NoIP
                 ELSE v6Finish(<<>>, bs \o SubSeq(ip4, 13, 16), ellipsis)
    ELSE LET bs2 == bs \o <<x.n \div 256, x.n % 256>>
             s2 == Drop(s, x.i)
         IN IF Len(s2) = 0 THEN v6Finish(s2, bs2, ellipsis)
            ELSE IF s2[1] # ":" \/ Len(s2) = 1 THEN NoIP
            ELSE LET s3 == Tail(s2)
                 IN IF s3[1] = ":"
                    THEN IF ellipsis >= 0 THEN NoIP
                         ELSE IF Len(s3) = 1
                              THEN v6Finish(<<>>, bs2, Len(bs2))
                              ELSE parseIPv6Loop(Tail(s3), bs2, Len(bs2))
                    ELSE parseIPv6Loop(s3, bs2, ellipsis)

parseIPv6(s) ==
  IF Len(s) >= 2 /\ s[1] = ":" /\ s[2] = ":"
  THEN IF Len(s) = 2 THEN [k \in 1..16 |-> 0]
       ELSE parseIPv6Loop(Drop(s, 2), <<>>, 0)
  ELSE parseIPv6Loop(s, <<>>, -1)

\* net.ParseIP: the first "." or ":" of the text decides the family
RECURSIVE ParseIPFrom(_, _)
ParseIPFrom(s, i) ==
  IF i > Len(s) THEN NoIP
  ELSE IF s[i] = "." THEN parseIPv4(s)
  ELSE IF s[i] = ":" THEN parseIPv6(s)
  ELSE ParseIPFrom(s, i + 1)

ParseIP(s) == ParseIPFrom(s, 1)

\* IP.To4: the 4 bytes of an IPv4 address, NoIP for any other address
To4(ip) ==
  IF Len(ip) = 16 /\ (\A k \in 1..10 : ip[k] = 0) /\ ip[11] = 255 /\ ip[12] = 255
  THEN SubSeq(ip, 13, 16)
  ELSE NoIP

\* decimal text of n >= 0
RECURSIVE itoa(_)
itoa(n) == IF n < 10 THEN <<DecDigits[n + 1]>>
           ELSE Append(itoa(n \div 10), DecDigits[(n % 10) + 1])

\* appendHex: lower-case hexadecimal text of n, no leading zeros
RECURSIVE hexText(_)
hexText(n) == IF n < 16 THEN <<HexLower[n + 1]>>
              ELSE Append(hexText(n \div 16), HexLower[(n % 16) + 1])

\* the texts of gs joined with sep
RECURSIVE JoinHex(_, _)
JoinHex(gs, sep) ==
  IF Len(gs) = 0 THEN <<>>
  ELSE IF Len(gs) = 1 THEN hexText(gs[1])
  ELSE hexText(gs[1]) \o sep \o JoinHex(Tail(gs), sep)

\* IP.String of a 16-byte address
IPString(ip) ==
  LET p4 == To4(ip) IN
  IF Len(p4) = 4
  THEN itoa(p4[1]) \o <<".">> \o itoa(p4[2]) \o <<".">> \o itoa(p4[3])
       \o <<".">> \o itoa(p4[4])
  ELSE LET g == [k \in 1..8 |-> ip[2 * k - 1] * 256 + ip[2 * k]]
           \* number of zero groups from group a on
           run(a) == IF g[a] # 0 THEN 0
                     ELSE (CHOOSE b \in a..8 :
                             /\ \A k \in a..b : g[k] = 0
                             /\ (b = 8 \/ g[b + 1] # 0)) - a + 1
           best == CHOOSE a \in 1..8 :
                     /\ \A b \in 1..8 : run(b) <= run(a)
                     /\ \A b \in 1..(a - 1) : run(b) < run(a)
       IN IF run(best) < 2 THEN JoinHex(g, <<":">>)
          ELSE JoinHex(SubSeq(g, 1, best - 1), <<":">>) \o <<":", ":">>
               \o JoinHex(SubSeq(g, best + run(best), 8), <<":">>)

\* --------------------------------------------------------------- errors
Nil == <<>>

Errorf(msg, e) == <<msg>> \o e

\* ------------------------------------------------------------ the client
\* what c.Get(WhatsmyipAPI) and ioutil.ReadAll can come back with
ExtIPResponses ==
  { [net |-> "timeout", read |-> TRUE, body |-> <<>>],
    [net |-> "ok", read |-> FALSE, body |-> <<>>] }
  \cup { [net |-> "ok", read |-> TRUE, body |-> b] : b \in Bodies }

\* an ExtIP without the test for the nil IP: the text of the nil IP is returned
ExtIP_NoNilTest(res) ==
  IF res.net # "ok"
  THEN [ip |-> <<>>, err |-> Errorf("contacting my-external-ip api", <<res.net>>)]
  ELSE IF ~res.read
  THEN [ip |-> <<>>, err |-> Errorf("reading response", <<"read">>)]
  ELSE LET ip == ParseIP(res.body)
       IN IF ip = NoIP THEN [ip |-> <<"<nil>">>, err |-> Nil]
          ELSE [ip |-> IPString(ip), err |-> Nil]

\* Client.ExtIP on the answer res of the lookup service
ExtIP(res) ==
  IF res.net # "ok"
  THEN [ip |-> <<>>, err |-> Errorf("contacting my-external-ip api", <<res.net>>)]
  ELSE IF ~res.read
  THEN [ip |-> <<>>, err |-> Errorf("reading response", <<"read">>)]
  ELSE LET ip == ParseIP(res.body)
       IN IF ip = NoIP
          THEN [ip |-> <<>>, err |-> <<"invalid ip address", "<nil>">>]
          ELSE [ip |-> IPString(ip), err |-> Nil]

\* a Records without the test of the result field
Records_NoResultTest(res) ==
  IF res.net # "ok" THEN [records |-> <<>>, err |-> <<res.net>>]
  ELSE IF ~res.json
  THEN [records |-> <<>>, err |-> Errorf("unmarshaling json", <<"json">>)]
  ELSE IF res.data = "other"
  THEN [records |-> <<>>, err |-> Errorf("unmarshalling json records", <<"json">>)]
  ELSE IF res.data = "null" THEN [records |-> <<>>, err |-> Nil]
  ELSE [records |-> res.Data, err |-> Nil]

\* Client.Records on the answer res to dns-list_records
Records(res) ==
  IF res.net # "ok" THEN [records |-> <<>>, err |-> <<res.net>>]
  ELSE IF ~res.json
  THEN [records |-> <<>>, err |-> Errorf("unmarshaling json", <<"json">>)]
  ELSE IF res.Result # "success" THEN [records |-> <<>>, err |-> <<res.Reason>>]
  ELSE IF res.data = "other"
  THEN [records |-> <<>>, err |-> Errorf("unmarshalling json records", <<"json">>)]
  ELSE IF res.data = "null" THEN [records |-> <<>>, err |-> Nil]
  ELSE [records |-> res.Data, err |-> Nil]

\* the loop of Run over the listed records: the index of the first A record
\* of the hostname, 0 when there is none (match = nil), Panic when the loop
\* comes to a nil element first (r.Type on a nil *Record)
RECURSIVE MatchFrom(_, _, _)
MatchFrom(records, record, i) ==
  IF i > Len(records) THEN 0
  ELSE IF records[i] = NilRecord THEN Panic
  ELSE IF records[i].Type = "A" /\ records[i].Record = record THEN i
  ELSE MatchFrom(records, record, i + 1)

\* a loop without the break: the last A record of the hostname is kept
Match_Last(records, record) ==
  LET hits == { i \in 1..Len(records) :
                  records[i].Type = "A" /\ records[i].Record = record }
  IN IF hits = {} THEN 0 ELSE CHOOSE i \in hits : \A j \in hits : j <= i

\* a loop that tests the type only: the first A record, whatever its hostname
Match_AnyHost(records, record) ==
  LET hits == { i \in 1..Len(records) : records[i].Type = "A" }
  IN IF hits = {} THEN 0 ELSE CHOOSE i \in hits : \A j \in hits : i <= j

Match(records, record) == MatchFrom(records, record, 1)

\* the requests Client.ExtIP and Client.Records send
ExtIPRequest == [cmd |-> "whatsmyip", type |-> "", record |-> "", value |-> <<>>]

ListRequest ==
  [cmd |-> "dns-list_records", type |-> "", record |-> "", value |-> <<>>]

\* an entry of the log of requests: the request and the answer it got
Sent(req, res) ==
  [cmd |-> req.cmd, type |-> req.type, record |-> req.record,
   value |-> req.value, res |-> res]

\* the request Client.Create builds
CreateRequest(record, address) ==
  [cmd |-> "dns-add_record", type |-> "A", record |-> record, value |-> address]

\* the request Client.Delete builds
DeleteRequest(record, address) ==
  [cmd |-> "dns-remove_record", type |-> "A", record |-> record, value |-> address]

\* Client.Create after the dry-run test, on the answer res to dns-add_record
Create(res) ==
  IF res.net # "ok" THEN Errorf("contacting api", <<res.net>>)
  ELSE IF ~res.json THEN Errorf("unmarshaling response", <<"json">>)
  ELSE IF res.Result # "success"
  THEN <<"record creation failed with", res.Result, res.Data>>
  ELSE Nil

\* Client.Delete after the dry-run test, on the answer res to dns-remove_record
Delete(res) ==
  IF res.net # "ok" THEN Errorf("contacting api", <<res.net>>)
  ELSE IF ~res.json THEN Errorf("unmarshaling response", <<"json">>)
  ELSE IF res.Result # "success"
  THEN <<"record removal failed with", res.Result, res.Data>>
  ELSE Nil

\* ---------------------------------------------------------- the provider
\* The provider is the other end of the three requests.  A request whose
\* answer does not arrive, or arrives and cannot be decoded (the body is late
\* or cut, or is not the JSON of a Result), may or may not have been carried
\* out; an answer that reports an error leaves the records as they were.
Reasons == { "invalid_api_key", "" }

Answer(net, json, result, data) ==
  [net |-> net, json |-> json, Result |-> result, Data |-> data]

Holds(st, rec) == \E i \in 1..Len(st) : st[i] = rec

Without(st, rec) == SelectSeq(st, LAMBDA r : r # rec)

\* an answer to dns-list_records; data is the shape of its field data:
\* "array" (Data holds its elements), "null", or "other" for everything that
\* json.Unmarshal does not take as a list of records
ListAnswer(net, json, result, reason, data, elems) ==
  [net |-> net, json |-> json, Result |-> result, Reason |-> reason,
   data |-> data, Data |-> elems]

\* answers to dns-list_records when the provider holds st: the records held,
\* the records held behind a null element, null, and the answers that are
\* errors
ListAnswers(st) ==
  { ListAnswer("timeout", FALSE, "", "", "other", <<>>),
    ListAnswer("ok", FALSE, "", "", "other", <<>>),
    ListAnswer("ok", TRUE, "success", "", "other", <<>>),
    ListAnswer("ok", TRUE, "success", "", "null", <<>>),
    ListAnswer("ok", TRUE, "success", "", "array", st),
    ListAnswer("ok", TRUE, "success", "", "array", <<NilRecord>> \o st) }
  \cup { ListAnswer("ok", TRUE, "error", r, "other", <<>>) : r \in Reasons }

\* the answer is the list of the records held
Truthful(res, st) == res.data = "array" /\ res.Data = st

\* outcomes of dns-add_record: the answer and the records held afterwards
AddOutcomes(st, req) ==
  LET rec == Rec(req.type, req.record, req.value)
      added == IF Holds(st, rec) THEN st ELSE Append(st, rec)
  IN { [res |-> Answer("timeout", FALSE, "", ""), store |-> st],
       [res |-> Answer("timeout", FALSE, "", ""), store |-> added],
       [res |-> Answer("ok", FALSE, "", ""), store |-> st],
       [res |-> Answer("ok", FALSE, "", ""), store |-> added],
       [res |-> Answer("ok", TRUE, "error", "internal_error"), store |-> st],
       [res |-> Answer("ok", TRUE, "success", "record_added"), store |-> added] }
     \cup IF Holds(st, rec)
          THEN { [res |-> Answer("ok", TRUE, "error",
                                 "record_already_exists_remove_first"),
                  store |-> st] }
          ELSE {}

\* outcomes of dns-remove_record
RemoveOutcomes(st, req) ==
  LET rec == Rec(req.type, req.record, req.value)
  IN { [res |-> Answer("timeout", FALSE, "", ""), store |-> st],
       [res |-> Answer("timeout", FALSE, "", ""), store |-> Without(st, rec)],
       [res |-> Answer("ok", FALSE, "", ""), store |-> st],
       [res |-> Answer("ok", FALSE, "", ""), store |-> Without(st, rec)],
       [res |-> Answer("ok", TRUE, "error", "internal_error"), store |-> st] }
     \cup IF Holds(st, rec)
          THEN { [res |-> Answer("ok", TRUE, "success", "record_removed"),
                  store |-> Without(st, rec)] }
          ELSE { [res |-> Answer("ok", TRUE, "error", "no_such_record"),
                  store |-> st] }

\* a Create without the dry-run test
CreateSends_NoDryRun(dry, record, address) ==
  << CreateRequest(record, address) >>

\* the requests Client.Create(record, address) sends: none in a dry run
CreateSends(dry, record, address) ==
  IF dry THEN <<>> ELSE << CreateRequest(record, address) >>

\* the requests Client.Delete(record, address) sends
DeleteSends(dry, record, address) ==
  IF dry THEN <<>> ELSE << DeleteRequest(record, address) >>

\* what Client.Create returns: nil in a dry run, else what it makes of the
\* answer to its request; fl is the request with its answer, or <<>>
CreateReturns(fl) == IF fl = <<>> THEN Nil ELSE Create(fl[1].res)

\* what Client.Delete returns
DeleteReturns(fl) == IF fl = <<>> THEN Nil ELSE Delete(fl[1].res)

\* a Run that removes every matched record, also one that points at addr
Decide_NoCompare(recs, m, addr) == IF m # 0 THEN "Delete" ELSE "Create"

\* a Run that creates nothing when no record matches
Decide_NoCreate(recs, m, addr) ==
  IF m # 0
  THEN IF recs[m].Value = addr THEN "ret" ELSE "Delete"
  ELSE "ret"

\* a Run that leaves a matched record as it is, whatever its value
Decide_KeepStale(recs, m, addr) == IF m # 0 THEN "ret" ELSE "Create"

\* Run after the list: what it does next with the match m (an index, 0 = nil)
Decide(recs, m, addr) ==
  IF m # 0
  THEN IF recs[m].Value = addr THEN "ret" ELSE "Delete"
  ELSE "Create"

\* a Run that goes on to Create whatever Delete returned
AfterDelete_IgnoreErr(e) == "Create"

\* Run after Delete returned e
AfterDelete(e) == IF e # Nil THEN "ret" ELSE "Create"

\* -------------------------------------------------------------- the state
VARIABLES
  withMetrics,          \* TRUE: the variant with the gauge and the endpoints
  apiKey, dnsRecord, syncInterval, dryRun,     \* the flags
  pc,                   \* main: "flags", "first", "loop", "exited"
  exitCode,             \* -1 while the process runs
  exitBy,               \* what ended it: "flag", "run", "finished", "listen",
                        \* "panic"
  logged,               \* the error given to log.Error or log.Fatal since
                        \* the last call of Run
  runpc,                \* Run: "idle", "ExtIP", "Records", "Delete", "Create",
                        \* "ret"; "panic" when it ended without a return
  cycle,                \* number of calls of Run so far, counted up to
                        \* 1 + MaxTicks
  ip, records, match,   \* the locals of Run
  err,                  \* what Run returns
  calls,                \* the Delete and Create calls of this cycle, in order
  reqs,                 \* the requests of this cycle that have been
                        \* answered, with their answers
  flight,               \* <<>>, or the request of the Delete or Create in
                        \* progress with the answer on its way: c.Get has
                        \* sent it and the call has not returned
  store,                \* the records the provider holds, in list order
  store0,               \* the records it held when the program started
  ticker,               \* time.NewTicker has been called
  tickPending,          \* a tick waits in the ticker's channel (capacity 1)
  now,                  \* the clock, in ticker periods
  srv,                  \* the goroutine of http.ListenAndServe: "off", "listening"
  lastSuccessfulCheck,  \* the gauge
  stable                \* <<>>, or the public IP from the moment on from which
                        \* every lookup answers it and every call succeeds

\* what no step of the program changes
flagVars ==
  <<withMetrics, apiKey, dnsRecord, syncInterval, dryRun, store0, stable>>
mainVars == <<pc, exitCode, exitBy, logged>>
exitVars == <<pc, exitCode, exitBy>>
runVars == <<runpc, cycle, ip, records, match, err, calls, reqs, flight>>
vars == <<withMetrics, apiKey, dnsRecord, syncInterval, dryRun, pc, exitCode,
          exitBy, logged, runpc, cycle, ip, records, match, err, calls, reqs,
          flight, store, store0, ticker, tickPending, now, srv,
          lastSuccessfulCheck, stable>>

Running == pc # "exited"

Init ==
  /\ withMetrics \in BOOLEAN
  /\ apiKey \in { "", "tok" }
  /\ dnsRecord \in { "", Target }
  /\ syncInterval \in { -1, 0, 1 }
  /\ dryRun \in BOOLEAN
  /\ store \in SeqsNoDup(InitialRecords, MaxRecords)
  /\ store0 = store
  /\ pc = "flags" /\ exitCode = -1 /\ exitBy = "none" /\ logged = Nil
  /\ runpc = "idle" /\ cycle = 0
  /\ ip = <<>> /\ records = <<>> /\ match = 0 /\ err = Nil
  /\ calls = <<>> /\ reqs = <<>> /\ flight = <<>>
  /\ ticker = FALSE /\ tickPending = FALSE /\ now = 1
  /\ srv = "off" /\ lastSuccessfulCheck = 0
  /\ stable = <<>>

\* the outcomes the lookup service and the provider still have: all of them,
\* and from the moment they are stable those of a call that returns no error
Steady(e) == stable = <<>> \/ e = Nil

\* every answer of the lookup service with what Client.ExtIP returns on it
ExtIPCalls == { [res |-> res, ret |-> ExtIP(res)] : res \in ExtIPResponses }

\* log.Fatal(e): os.Exit(1)
Fatal(by, e) ==
  /\ pc' = "exited" /\ exitCode' = 1 /\ exitBy' = by /\ logged' = e

\* the call cli.Run(*dnsRecord)
CallRun ==
  /\ runpc' = "ExtIP"
  /\ cycle' = IF cycle <= MaxTicks THEN cycle + 1 ELSE cycle
  /\ ip' = <<>> /\ records' = <<>> /\ match' = 0 /\ err' = Nil
  /\ calls' = <<>> /\ reqs' = <<>> /\ flight' = <<>> /\ logged' = Nil

\* main up to the first call of Run: the required flags
MainFlags ==
  /\ pc = "flags"
  /\ IF apiKey = ""
     THEN Fatal("flag", <<"required flag -api.key">>) /\ UNCHANGED runVars
     ELSE IF dnsRecord = ""
     THEN Fatal("flag", <<"required flag -dns.record">>) /\ UNCHANGED runVars
     ELSE IF syncInterval < 0
     THEN Fatal("flag", <<"sync.interval must be >= 0">>) /\ UNCHANGED runVars
     ELSE /\ pc' = "first" /\ CallRun
          /\ UNCHANGED <<exitCode, exitBy>>
  /\ UNCHANGED <<flagVars, store, ticker, tickPending, now, srv,
                 lastSuccessfulCheck>>

\* Run: the IP lookup
RunExtIP ==
  /\ Running /\ runpc = "ExtIP"
  /\ \E c \in ExtIPCalls :
       LET res == c.res
           r == c.ret
       IN /\ Steady(r.err) /\ (stable # <<>> => r.ip = stable)
          /\ reqs' = Append(reqs, Sent(ExtIPRequest, res))
          /\ IF r.err # Nil
             THEN /\ err' = Errorf("checking our public IP address", r.err)
                  /\ runpc' = "ret" /\ ip' = ip
             ELSE /\ ip' = r.ip /\ runpc' = "Records" /\ err' = err
  /\ UNCHANGED <<flagVars, mainVars, cycle, records, match, calls, flight,
                 store, ticker, tickPending, now, srv, lastSuccessfulCheck>>

\* Run: the list of the records, the search for the match and the decision
RunRecords ==
  /\ Running /\ runpc = "Records"
  /\ \E res \in ListAnswers(store) :
       LET r == Records(res)
           m == Match(r.records, dnsRecord)
       IN /\ Steady(r.err) /\ (stable # <<>> => Truthful(res, store))
          /\ reqs' = Append(reqs, Sent(ListRequest, res))
          /\ IF r.err # Nil
             THEN /\ err' = Errorf("getting dns records from dreamhost", r.err)
                  /\ runpc' = "ret" /\ records' = records /\ match' = match
                  /\ UNCHANGED mainVars
             ELSE IF m = Panic
             THEN /\ records' = r.records /\ match' = match /\ err' = err
                  /\ runpc' = "panic"
                  /\ pc' = "exited" /\ exitCode' = 2 /\ exitBy' = "panic"
                  /\ logged' = logged
             ELSE /\ records' = r.records /\ match' = m
                  /\ runpc' = Decide(r.records, m, ip)
                  /\ err' = Nil
                  /\ UNCHANGED mainVars
  /\ UNCHANGED <<flagVars, cycle, ip, calls, flight, store,
                 ticker, tickPending, now, srv, lastSuccessfulCheck>>

\* Run inside Delete: c.Get sends the request; the provider carries it out
\* or not, and the answer is on its way while Delete waits for it
RunDeleteGet ==
  /\ Running /\ runpc = "Delete" /\ flight = <<>>
  /\ \E q \in { DeleteSends(dryRun, records[match].Record,
                             records[match].Value) } :
       /\ q # <<>>
       /\ \E o \in RemoveOutcomes(store, q[1]) :
            /\ Steady(Delete(o.res))
            /\ flight' = << Sent(q[1], o.res) >>
            /\ store' = o.store
  /\ UNCHANGED <<flagVars, mainVars, runpc, cycle, ip, records, match, err,
                 calls, reqs, ticker, tickPending, now, srv,
                 lastSuccessfulCheck>>

\* Run: the record does not match, it is removed; Delete returns
RunDelete ==
  /\ Running /\ runpc = "Delete"
  /\ \/ flight # <<>>
     \/ DeleteSends(dryRun, records[match].Record,
                    records[match].Value) = <<>>
  /\ LET e == DeleteReturns(flight)
     IN /\ calls' = Append(calls, [op |-> "Delete",
                                   record |-> records[match].Record,
                                   value |-> records[match].Value,
                                   err |-> e])
        /\ runpc' = AfterDelete(e)
        /\ err' = IF e # Nil
                  THEN Errorf("deleting A record", <<dnsRecord>> \o e)
                  ELSE Nil
  /\ reqs' = reqs \o flight
  /\ flight' = <<>>
  /\ UNCHANGED <<flagVars, mainVars, cycle, ip, records, match, store,
                 ticker, tickPending, now, srv, lastSuccessfulCheck>>

\* Run inside Create: c.Get sends the request; the provider carries it out
\* or not, and the answer is on its way while Create waits for it
RunCreateGet ==
  /\ Running /\ runpc = "Create" /\ flight = <<>>
  /\ \E q \in { CreateSends(dryRun, dnsRecord, ip) } :
       /\ q # <<>>
       /\ \E o \in AddOutcomes(store, q[1]) :
            /\ Steady(Create(o.res))
            /\ flight' = << Sent(q[1], o.res) >>
            /\ store' = o.store
  /\ UNCHANGED <<flagVars, mainVars, runpc, cycle, ip, records, match, err,
                 calls, reqs, ticker, tickPending, now, srv,
                 lastSuccessfulCheck>>

\* a Run that calls Create a second time when the first call failed
RunCreate_Retry ==
  /\ Running /\ runpc = "Create"
  /\ flight # <<>> \/ CreateSends(dryRun, dnsRecord, ip) = <<>>
  /\ LET e == CreateReturns(flight)
     IN /\ calls' = Append(calls, [op |-> "Create", record |-> dnsRecord,
                                   value |-> ip, err |-> e])
        /\ runpc' = IF e # Nil /\ Len(calls) < 2 THEN "Create" ELSE "ret"
        /\ err' = IF e # Nil
                  THEN Errorf("creating A record", <<dnsRecord>> \o ip \o e)
                  ELSE Nil
  /\ reqs' = reqs \o flight
  /\ flight' = <<>>
  /\ UNCHANGED <<flagVars, mainVars, cycle, ip, records, match, store,
                 ticker, tickPending, now, srv, lastSuccessfulCheck>>

\* Run: the record is created; Create returns and so does Run
RunCreate ==
  /\ Running /\ runpc = "Create"
  /\ flight # <<>> \/ CreateSends(dryRun, dnsRecord, ip) = <<>>
  /\ LET e == CreateReturns(flight)
     IN /\ calls' = Append(calls, [op |-> "Create", record |-> dnsRecord,
                                   value |-> ip, err |-> e])
        /\ runpc' = "ret"
        /\ err' = IF e # Nil
                  THEN Errorf("creating A record", <<dnsRecord>> \o ip \o e)
                  ELSE Nil
  /\ reqs' = reqs \o flight
  /\ flight' = <<>>
  /\ UNCHANGED <<flagVars, mainVars, cycle, ip, records, match, store,
                 ticker, tickPending, now, srv, lastSuccessfulCheck>>

\* a main that treats the first Run like those of the loop: its error is
\* logged and, with an interval, the ticker is started all the same
MainFirst_NotFatal ==
  /\ pc = "first" /\ runpc = "ret"
  /\ runpc' = "idle"
  /\ logged' = err
  /\ lastSuccessfulCheck' = IF withMetrics /\ err = Nil THEN now
                            ELSE lastSuccessfulCheck
  /\ IF syncInterval = 0
     THEN /\ pc' = "exited" /\ exitCode' = 0 /\ exitBy' = "finished"
          /\ UNCHANGED <<ticker, srv>>
     ELSE /\ pc' = "loop" /\ ticker' = TRUE
          /\ srv' = IF withMetrics THEN "listening" ELSE srv
          /\ UNCHANGED <<exitCode, exitBy>>
  /\ UNCHANGED <<flagVars, cycle, ip, records, match, err, calls, reqs,
                 flight, store, tickPending, now>>

\* a main without the exit of the single-shot mode: it goes on to the ticker
MainFirst_NoSingleShot ==
  /\ pc = "first" /\ runpc = "ret"
  /\ IF err # Nil
     THEN /\ Fatal("run", err)
          /\ UNCHANGED <<runpc, lastSuccessfulCheck, ticker, srv>>
     ELSE /\ lastSuccessfulCheck' = IF withMetrics THEN now
                                    ELSE lastSuccessfulCheck
          /\ runpc' = "idle"
          /\ logged' = logged
          /\ pc' = "loop" /\ ticker' = TRUE
          /\ srv' = IF withMetrics /\ syncInterval # 0 THEN "listening" ELSE srv
          /\ UNCHANGED <<exitCode, exitBy>>
  /\ UNCHANGED <<flagVars, cycle, ip, records, match, err, calls, reqs,
                 flight, store, tickPending, now>>

\* main after the first Run returned
MainFirst ==
  /\ pc = "first" /\ runpc = "ret"
  /\ IF err # Nil
     THEN /\ Fatal("run", err)
          /\ UNCHANGED <<runpc, lastSuccessfulCheck, ticker, srv>>
     ELSE /\ lastSuccessfulCheck' = IF withMetrics THEN now
                                    ELSE lastSuccessfulCheck
          /\ runpc' = "idle"
          /\ logged' = logged
          /\ IF syncInterval = 0
             THEN /\ pc' = "exited" /\ exitCode' = 0 /\ exitBy' = "finished"
                  /\ UNCHANGED <<ticker, srv>>
             ELSE /\ pc' = "loop" /\ ticker' = TRUE
                  /\ srv' = IF withMetrics THEN "listening" ELSE srv
                  /\ UNCHANGED <<exitCode, exitBy>>
  /\ UNCHANGED <<flagVars, cycle, ip, records, match, err, calls, reqs,
                 flight, store, tickPending, now>>

\* the ticker sends a tick; the channel holds one, a second one is dropped.
\* MaxTicks ticks are sent while the outcomes are arbitrary; once they are
\* stable the ticks go on and the clock stays at its last value.
TickerFires ==
  /\ Running /\ ticker
  /\ now < 1 + MaxTicks \/ stable # <<>>
  /\ tickPending' = TRUE
  /\ now' = IF now < 1 + MaxTicks THEN now + 1 ELSE now
  /\ UNCHANGED <<flagVars, mainVars, runVars, store, ticker, srv,
                 lastSuccessfulCheck>>

\* a main that starts a Run for every tick, the previous one returned or not
MainTick_Overlap ==
  /\ pc = "loop" /\ tickPending
  /\ tickPending' = FALSE
  /\ CallRun
  /\ UNCHANGED <<flagVars, exitVars, store, ticker, now, srv,
                 lastSuccessfulCheck>>

\* main receives a tick and calls Run
MainTick ==
  /\ pc = "loop" /\ runpc = "idle" /\ tickPending
  /\ tickPending' = FALSE
  /\ CallRun
  /\ UNCHANGED <<flagVars, exitVars, store, ticker, now, srv,
                 lastSuccessfulCheck>>

\* a main whose loop ends the process on an error of Run
MainLoop_Fatal ==
  /\ pc = "loop" /\ runpc = "ret"
  /\ IF err # Nil
     THEN /\ Fatal("run", err)
          /\ UNCHANGED <<runpc, lastSuccessfulCheck>>
     ELSE /\ lastSuccessfulCheck' = IF withMetrics THEN now
                                    ELSE lastSuccessfulCheck
          /\ runpc' = "idle"
          /\ UNCHANGED mainVars
  /\ UNCHANGED <<flagVars, cycle, ip, records, match, err, calls, reqs,
                 flight, store, ticker, tickPending, now, srv>>

\* a main whose loop sets the gauge after every Run, failed or not
MainLoop_AlwaysSet ==
  /\ pc = "loop" /\ runpc = "ret"
  /\ runpc' = "idle"
  /\ logged' = IF err # Nil THEN err ELSE logged
  /\ lastSuccessfulCheck' = IF withMetrics THEN now ELSE lastSuccessfulCheck
  /\ UNCHANGED <<flagVars, pc, exitCode, exitBy, cycle, ip, records, match,
                 err, calls, reqs, flight, store, ticker, tickPending, now,
                 srv>>

\* main after a Run of the loop returned
MainLoop ==
  /\ pc = "loop" /\ runpc = "ret"
  /\ runpc' = "idle"
  /\ IF err # Nil
     THEN logged' = err /\ UNCHANGED lastSuccessfulCheck
     ELSE /\ lastSuccessfulCheck' = IF withMetrics THEN now
                                    ELSE lastSuccessfulCheck
          /\ logged' = logged
  /\ UNCHANGED <<flagVars, pc, exitCode, exitBy, cycle, ip, records, match,
                 err, calls, reqs, flight, store, ticker, tickPending, now,
                 srv>>

\* http.ListenAndServe returns: log.Fatal in the goroutine
ServeFails ==
  /\ Running /\ srv = "listening"
  /\ Fatal("listen", <<"listen">>)
  /\ UNCHANGED <<flagVars, runVars, store, ticker, tickPending, now, srv,
                 lastSuccessfulCheck>>

Next ==
  \/ MainFlags
  \/ RunExtIP
  \/ RunRecords
  \/ RunDeleteGet
  \/ RunDelete
  \/ RunCreateGet
  \/ RunCreate
  \/ MainFirst
  \/ TickerFires
  \/ MainTick
  \/ MainLoop
  \/ ServeFails

Spec == Init /\ [][Next]_vars

\* ------------------------------------------- the program that keeps running
\* the addresses a lookup can resolve to
Addresses ==
  { IPString(ParseIP(b)) : b \in { c \in Bodies : ParseIP(c) # NoIP } }

\* between two cycles: from here on the public IP is fixed, no lookup and no
\* call fails and the list is the list of the records held
BecomeStable ==
  /\ pc = "loop" /\ runpc = "idle" /\ stable = <<>>
  /\ stable' \in Addresses
  /\ UNCHANGED <<withMetrics, apiKey, dnsRecord, syncInterval, dryRun, store0,
                 mainVars, runVars, store, ticker, tickPending, now, srv,
                 lastSuccessfulCheck>>

\* main.go started with the flags of the interval mode, dry-run off; the
\* provider holds A records of the hostname, in any number and order
LiveInit ==
  /\ Init
  /\ ~withMetrics /\ apiKey = "tok" /\ dnsRecord = Target
  /\ syncInterval = 1 /\ ~dryRun
  /\ \A i \in 1..Len(store) :
       store[i].Type = "A" /\ store[i].Record = Target

LiveNext ==
  \/ MainFlags
  \/ RunExtIP
  \/ RunRecords
  \/ RunDeleteGet
  \/ RunDelete
  \/ RunCreateGet
  \/ RunCreate
  \/ MainFirst
  \/ TickerFires
  \/ MainTick
  \/ MainLoop
  \/ BecomeStable

\* WF_vars(RunExtIP) with its ENABLED written out: the lookup has an outcome
\* in every state in which Run is at it
LookupFairness ==
  <>[](Running /\ runpc = "ExtIP") => []<><<RunExtIP>>_vars

\* main is one goroutine that runs on, a request returns (at the latest when
\* the timeout of the client ends it), the ticker sends its ticks
Fairness ==
  /\ WF_vars(MainFlags) /\ WF_vars(MainFirst)
  /\ WF_vars(MainTick) /\ WF_vars(MainLoop)
  /\ LookupFairness /\ WF_vars(RunRecords)
  /\ WF_vars(RunDeleteGet) /\ WF_vars(RunDelete)
  /\ WF_vars(RunCreateGet) /\ WF_vars(RunCreate)
  /\ WF_vars(TickerFires)

LiveSpec == LiveInit /\ [][LiveNext]_vars /\ Fairness

\* ------------------------------------------------------------ the claims
\* the cycle has ended: Run returned, and main may have handled the return
Returned == cycle > 0 /\ runpc \in { "ret", "idle" }

\* Run got past the list: the lookup and the list both succeeded
Decided ==
  \/ runpc \in { "Delete", "Create" }
  \/ /\ Returned
     /\ \/ err = Nil
        \/ err[1] \in { "deleting A record", "creating A record" }

\* the listed A records of the hostname, and the first of them
ListedMatch ==
  { i \in 1..Len(records) :
      records[i].Type = "A" /\ records[i].Record = dnsRecord }

FirstListed == CHOOSE i \in ListedMatch : \A j \in ListedMatch : i <= j

IsCall(c, op, record, value) ==
  c.op = op /\ c.record = record /\ c.value = value

\* C1: when the first listed A record of the hostname has a value other than
\* the resolved IP, every Create(hostname, ip) of the cycle is the second call,
\* after a Delete(hostname, old value) that returned no error; a cycle that has
\* ended has called that Delete first, and when the Delete returned an error
\* it has called nothing else.
C1_DeleteBeforeCreate ==
  (Decided /\ ListedMatch # {} /\ records[FirstListed].Value # ip) =>
    LET old == records[FirstListed].Value
    IN /\ \A k \in 1..Len(calls) :
            calls[k].op = "Create" =>
              /\ k = 2
              /\ IsCall(calls[k], "Create", dnsRecord, ip)
              /\ IsCall(calls[1], "Delete", dnsRecord, old)
              /\ calls[1].err = Nil
       /\ Returned =>
            /\ Len(calls) >= 1
            /\ IsCall(calls[1], "Delete", dnsRecord, old)
            /\ calls[1].err # Nil => (Len(calls) = 1 /\ err # Nil)
            /\ calls[1].err = Nil => Len(calls) = 2

\* a cycle with dry-run off replaced a stale record: Delete, then Create
C1_Witness ==
  /\ ~dryRun /\ Returned /\ err = Nil
  /\ ListedMatch # {} /\ records[FirstListed].Value # ip
  /\ Len(calls) = 2 /\ calls[1].op = "Delete" /\ calls[2].op = "Create"
  /\ Len(reqs) = 4

\* a request that changes the provider's records
Mutating(r) == r.cmd \in { "dns-add_record", "dns-remove_record" }

\* the requests of the cycle: those answered and the one under way
Requests == reqs \o flight

\* the answer arrived and Decode made a Result of it
Decoded(res) == res.net = "ok" /\ res.json

\* C2: when the first listed A record of the hostname has the resolved IP as
\* its value, the cycle calls neither Create nor Delete, sends no request that
\* changes a record, and returns no error.
C2_NoOp ==
  (Decided /\ ListedMatch # {} /\ records[FirstListed].Value = ip) =>
    /\ Returned /\ err = Nil
    /\ calls = <<>>
    /\ \A k \in 1..Len(Requests) : ~Mutating(Requests[k])

C2_Witness ==
  /\ ~dryRun /\ Returned /\ Decided /\ Len(reqs) = 2
  /\ ListedMatch # {} /\ records[FirstListed].Value = ip
  /\ store = records

\* C3: when the list holds no A record of the hostname, the cycle never calls
\* Delete and calls Create(hostname, ip) once: nothing before it, and a cycle
\* that has ended has made exactly that one call.
C3_CreateOnly ==
  (Decided /\ ListedMatch = {}) =>
    /\ runpc # "Delete"
    /\ runpc = "Create" => calls = <<>>
    /\ Returned => (Len(calls) = 1 /\ IsCall(calls[1], "Create", dnsRecord, ip))

C3_Witness ==
  /\ ~dryRun /\ Returned /\ Decided /\ ListedMatch = {} /\ Len(records) > 0
  /\ Len(calls) = 1 /\ calls[1].op = "Create" /\ calls[1].err = Nil
  /\ Holds(store, Rec("A", dnsRecord, ip))

\* net.ParseIP on each text the lookup service may send
ParsedBodies == [b \in Bodies |-> ParseIP(b)]

\* the lookup of this cycle failed: no answer, no body, or a text that is not
\* an IP address
LookupFailed ==
  /\ Len(reqs) >= 1 /\ reqs[1].cmd = "whatsmyip"
  /\ \/ reqs[1].res.net # "ok"
     \/ ~reqs[1].res.read
     \/ ParsedBodies[reqs[1].res.body] = NoIP

\* C4 as stated: with dry-run on no request that changes a record is sent,
\* the provider's records stay as they were, and every cycle that has ended
\* has sent the lookup and the list request.
C4_AsStated ==
  dryRun =>
    /\ \A k \in 1..Len(Requests) : ~Mutating(Requests[k])
    /\ store = store0
    /\ Returned =>
         /\ \E k \in 1..Len(reqs) : reqs[k].cmd = "whatsmyip"
         /\ \E k \in 1..Len(reqs) : reqs[k].cmd = "dns-list_records"

\* C4: with dry-run on no request that changes a record is sent and the
\* provider's records stay as they were; every cycle that has ended has sent
\* the lookup first, and the list request second unless the lookup failed.
C4_DryRun ==
  dryRun =>
    /\ \A k \in 1..Len(Requests) : ~Mutating(Requests[k])
    /\ store = store0
    /\ Returned =>
         /\ Len(reqs) >= 1 /\ reqs[1].cmd = "whatsmyip"
         /\ ~LookupFailed => (Len(reqs) = 2 /\ reqs[2].cmd = "dns-list_records")
         /\ LookupFailed => Len(reqs) = 1

\* a dry-run cycle that decided to replace a record: both calls made, only
\* the lookup and the list sent
C4_Witness ==
  /\ dryRun /\ Returned /\ err = Nil /\ cycle >= 2
  /\ Len(calls) = 2 /\ calls[1].op = "Delete" /\ calls[2].op = "Create"
  /\ Len(reqs) = 2 /\ store = store0

\* C5: when the lookup fails or its text is not an IP address, Run returns an
\* error about the lookup and the cycle has sent nothing but the lookup: no
\* list, no Delete, no Create.
C5_LookupFails ==
  (cycle > 0 /\ runpc # "ExtIP" /\ LookupFailed) =>
    /\ Returned
    /\ err # Nil /\ err[1] = "checking our public IP address"
    /\ Len(reqs) = 1
    /\ calls = <<>>

\* the lookup answered with a text that is not an address
C5_Witness ==
  /\ Returned /\ LookupFailed /\ ~dryRun
  /\ reqs[1].res.net = "ok" /\ reqs[1].res.read /\ Len(reqs[1].res.body) > 0
  /\ err = <<"checking our public IP address", "invalid ip address", "<nil>">>

\* the provider answered the list with a result other than "success"
ListRefused ==
  /\ Len(reqs) >= 2 /\ reqs[2].cmd = "dns-list_records"
  /\ reqs[2].res.net = "ok" /\ reqs[2].res.json
  /\ reqs[2].res.Result # "success"

\* C6: when the list answer has a result other than "success", Run returns
\* the provider's reason wrapped as the error of the list, and the cycle
\* calls neither Delete nor Create and sends no further request.
C6_ListRefused ==
  ListRefused =>
    /\ Returned
    /\ err = <<"getting dns records from dreamhost", reqs[2].res.Reason>>
    /\ calls = <<>>
    /\ Len(reqs) = 2

C6_Witness ==
  /\ ListRefused /\ ~dryRun /\ Returned
  /\ reqs[2].res.Reason = "invalid_api_key"
  /\ err[2] = "invalid_api_key"

\* the A records of the hostname that the provider holds
HeldForTarget ==
  { i \in 1..Len(store) : store[i].Type = "A" /\ store[i].Record = dnsRecord }

\* C7: after a cycle that returned no error, with dry-run off, the provider
\* holds exactly one A record of the hostname and its value is the resolved
\* IP.  (The code handles the first listed record only: a second A record of
\* the hostname stays, whatever its value.)
C7_ExactlyOne ==
  (~dryRun /\ Returned /\ err = Nil) =>
    /\ Cardinality(HeldForTarget) = 1
    /\ \A i \in HeldForTarget : store[i].Value = ip

\* C8: the decision is taken on the first listed A record of the hostname:
\* it is the match, its value alone is compared with the resolved IP, Delete
\* is called and sent for it alone, and every other listed record, before or
\* after it, is still held by the provider.
C8_FirstMatch ==
  /\ (Decided /\ ListedMatch = {}) => match = 0
  /\ (Decided /\ ListedMatch # {}) =>
       LET fl == FirstListed
           first == records[fl]
           rs == Requests
       IN /\ match = fl
          /\ first.Value = ip => (Returned /\ calls = <<>>)
          /\ first.Value # ip =>
               (runpc = "Delete" \/ (Len(calls) >= 1 /\ calls[1].op = "Delete"))
          /\ \A k \in 1..Len(calls) :
               calls[k].op = "Delete" =>
                 IsCall(calls[k], "Delete", first.Record, first.Value)
          /\ \A k \in 1..Len(rs) :
               rs[k].cmd = "dns-remove_record" =>
                 (rs[k].record = first.Record /\ rs[k].value = first.Value)
          /\ \A j \in 1..Len(records) :
               (j # fl /\ records[j] # NilRecord) =>
                 Holds(store, records[j])

\* a record of another type is skipped, the first A record is stale and is
\* replaced, the second A record has the resolved IP and is left alone
C8_Witness ==
  /\ ~dryRun /\ Returned /\ err = Nil
  /\ Len(records) = 3 /\ FirstListed = 2 /\ Cardinality(ListedMatch) = 2
  /\ records[2].Value # ip /\ records[3].Value = ip
  /\ Len(calls) = 2 /\ calls[1].value = records[2].Value
  /\ Holds(store, records[1]) /\ Holds(store, records[3])
  /\ ~Holds(store, records[2])

\* C9: in the loop an error returned by Run does not end the process: no exit
\* is ever caused by a Run other than the first, and once main has handled the
\* error it has logged it, the process runs on, and a pending tick makes it
\* call Run again.
C9_LoopErrorNotFatal ==
  /\ exitBy = "run" => cycle = 1
  /\ (pc = "loop" /\ runpc = "idle" /\ cycle >= 2 /\ err # Nil) =>
       /\ logged = err
       /\ exitCode = -1
       /\ tickPending => ENABLED MainTick

\* the second cycle failed, its error is logged and the next tick is waiting
C9_Witness ==
  /\ pc = "loop" /\ runpc = "idle" /\ cycle = 2 /\ err # Nil
  /\ logged = err /\ tickPending /\ exitCode = -1

\* C10: with an interval, the ticker exists only once the first Run has
\* returned without error; while the first cycle runs there is no ticker and
\* no tick; and when the first Run returns an error the next step of main ends
\* the process with exit code 1, so that no second cycle is ever started.
C10_FirstCycle ==
  /\ [](syncInterval # 0 =>
          /\ pc \in { "flags", "first" } =>
               (~ticker /\ ~tickPending /\ cycle <= 1)
          /\ ticker => (pc \in { "loop", "exited" } /\ exitBy # "run")
          /\ exitBy = "run" => (exitCode = 1 /\ cycle = 1 /\ ~ticker))
  /\ [][(syncInterval # 0 /\ pc = "first" /\ runpc = "ret" /\ err # Nil) =>
          (pc' = "exited" /\ exitCode' = 1 /\ exitBy' = "run"
           /\ cycle' = 1 /\ ~ticker')]_vars

\* with an interval set, the first cycle failed and the process has exited
C10_Witness ==
  /\ syncInterval # 0 /\ pc = "exited" /\ exitBy = "run" /\ exitCode = 1
  /\ cycle = 1 /\ runpc = "ret" /\ err # Nil /\ ~ticker /\ ~tickPending

\* C11: with no interval Run is called once and the process ends: the step of
\* main after Run returned exits with code 0 when Run returned no error and
\* with code 1 when it returned one; no ticker, no second cycle.  A Run that
\* does not return has ended the process with code 2.
C11_SingleShot ==
  /\ [](syncInterval = 0 =>
          /\ cycle <= 1 /\ ~ticker /\ ~tickPending /\ srv = "off"
          /\ exitBy = "finished" =>
               (pc = "exited" /\ exitCode = 0 /\ cycle = 1 /\ err = Nil)
          /\ exitBy = "run" =>
               (pc = "exited" /\ exitCode = 1 /\ cycle = 1 /\ err # Nil)
          /\ exitBy = "panic" =>
               (pc = "exited" /\ exitCode = 2 /\ cycle = 1 /\ runpc = "panic")
          /\ pc = "exited" =>
               exitBy \in { "flag", "run", "finished", "panic" })
  /\ [][(syncInterval = 0 /\ pc = "first" /\ runpc = "ret") =>
          /\ pc' = "exited"
          /\ exitCode' = IF err = Nil THEN 0 ELSE 1
          /\ cycle' = 1]_vars

\* single shot, the stale record replaced, exit code 0
C11_Witness ==
  /\ syncInterval = 0 /\ pc = "exited" /\ exitCode = 0 /\ exitBy = "finished"
  /\ cycle = 1 /\ err = Nil /\ ~dryRun /\ Len(calls) = 2

\* a cycle is in progress: Run has been called and has not returned
InProgress == runpc \in { "ExtIP", "Records", "Delete", "Create" }

\* C12: Run is called only when no cycle is in progress and the return of the
\* previous one has been handled; in the loop each call takes one tick out of
\* the channel.  A tick that fires during a cycle waits, it starts nothing.
C12_NoOverlap ==
  /\ [][cycle' # cycle =>
          /\ ~InProgress /\ runpc # "ret"
          /\ cycle' = cycle + 1 /\ runpc' = "ExtIP"
          /\ pc = "loop" => (tickPending /\ ~tickPending')]_vars
  /\ [][(InProgress /\ tickPending' # tickPending) =>
          (tickPending' /\ cycle' = cycle /\ runpc' = runpc)]_vars

\* the cycle takes longer than the interval: a tick is waiting while the
\* second cycle is still at its Create
C12_Witness ==
  /\ pc = "loop" /\ cycle = 2 /\ runpc = "Create" /\ tickPending
  /\ now = 1 + MaxTicks

\* Delete returned no error and the Create after it returned one
CreateFailedAfterDelete ==
  /\ Len(calls) >= 2
  /\ calls[1].op = "Delete" /\ calls[1].err = Nil
  /\ calls[2].op = "Create" /\ calls[2].err # Nil

\* what the provider holds after the Delete of the cycle and nothing else
AfterTheDelete ==
  Without(SelectSeq(records, LAMBDA r : r # NilRecord), records[match])

\* C13 as stated: after a Create that failed behind a successful Delete the
\* cycle has ended with an error and two calls, and the program has added no
\* record: the provider holds the listed records less the deleted one.
C13_AsStated ==
  CreateFailedAfterDelete =>
    /\ Returned /\ err # Nil /\ Len(calls) = 2
    /\ store = AfterTheDelete

\* C13: after a Create that failed behind a successful Delete the cycle has
\* ended with the error of the Create, with two calls and two requests that
\* change a record, none under way; when the answer to the create request
\* arrived and was decoded, the provider holds the listed records less the
\* deleted one, and when it did not arrive or was not decoded it holds that
\* or that and the record (hostname, ip).  A record is added to the
\* provider's only while a Create of this program waits for the answer to
\* its request, and that answer is success, or does not arrive, or is not
\* decoded.
C13_CreateFails ==
  /\ [](CreateFailedAfterDelete =>
          /\ Returned /\ Len(calls) = 2 /\ flight = <<>>
          /\ err # Nil /\ err[1] = "creating A record"
          /\ Len(SelectSeq(reqs, Mutating)) = 2
          /\ reqs[Len(reqs)].cmd = "dns-add_record"
          /\ IF Decoded(reqs[Len(reqs)].res)
             THEN store = AfterTheDelete
             ELSE \/ store = AfterTheDelete
                  \/ /\ ~Holds(AfterTheDelete, Rec("A", dnsRecord, ip))
                     /\ store = Append(AfterTheDelete, Rec("A", dnsRecord, ip)))
  /\ [][(\E i \in 1..Len(store') : ~Holds(store, store'[i])) =>
          /\ runpc = "Create" /\ runpc' = "Create" /\ ~dryRun
          /\ store' = Append(store, Rec("A", dnsRecord, ip))
          /\ flight = <<>> /\ Len(flight') = 1
          /\ flight'[1].cmd = "dns-add_record"
          /\ flight'[1].record = dnsRecord /\ flight'[1].value = ip
          /\ calls' = calls /\ reqs' = reqs
          /\ \/ Create(flight'[1].res) = Nil
             \/ ~Decoded(flight'[1].res)]_vars

\* the provider refused the Create after the Delete: the cycle has ended with
\* an error and the hostname has no A record left
C13_Witness ==
  /\ CreateFailedAfterDelete /\ Returned /\ err # Nil
  /\ reqs[Len(reqs)].res.net = "ok" /\ reqs[Len(reqs)].res.Result = "error"
  /\ HeldForTarget = {}
  /\ \E i \in 1..Len(store0) :
       store0[i].Type = "A" /\ store0[i].Record = dnsRecord

\* the provider answered a create request with "the record already exists"
AlreadySatisfied ==
  /\ Len(reqs) >= 1 /\ reqs[Len(reqs)].cmd = "dns-add_record"
  /\ reqs[Len(reqs)].res.net = "ok" /\ reqs[Len(reqs)].res.json
  /\ reqs[Len(reqs)].res.Data = "record_already_exists_remove_first"
  /\ Holds(store, Rec("A", reqs[Len(reqs)].record, reqs[Len(reqs)].value))

\* C14: a Create whose request the provider answered with "the record already
\* exists" returned no error.  (The code returns an error for every result
\* other than "success".)
C14_AlreadyExists ==
  AlreadySatisfied =>
    /\ calls[Len(calls)].op = "Create"
    /\ calls[Len(calls)].err = Nil

\* C15: the gauge is set by main, to the time of the clock, in the step that
\* handles the return of a Run without error, and in no other step; the step
\* that handles a return with an error leaves it as it was.  Hence it is 0
\* until the first cycle has succeeded, it is never ahead of the clock, and
\* in the loop it is at least the time of the first cycle.
C15_Gauge ==
  /\ [][(withMetrics /\ runpc = "ret"
          /\ (runpc' = "idle" \/ exitBy' = "run")) =>
          lastSuccessfulCheck' = IF err = Nil THEN now
                                 ELSE lastSuccessfulCheck]_vars
  /\ [][lastSuccessfulCheck' # lastSuccessfulCheck =>
          /\ withMetrics /\ runpc = "ret" /\ runpc' = "idle" /\ err = Nil
          /\ pc \in { "first", "loop" }
          /\ lastSuccessfulCheck' = now]_vars
  /\ [](/\ lastSuccessfulCheck <= now
        /\ (withMetrics /\ pc = "loop") => lastSuccessfulCheck >= 1
        /\ (pc \in { "flags", "first" } \/ ~withMetrics) =>
             lastSuccessfulCheck = 0)

\* the second cycle set the gauge, the third one failed and left it
C15_Witness ==
  /\ withMetrics /\ pc = "loop" /\ cycle = 3 /\ runpc = "idle"
  /\ err # Nil /\ now = 3 /\ lastSuccessfulCheck = 2

\* r is not an A record of the hostname
Foreign(r) == r.Type # "A" \/ r.Record # dnsRecord

\* C18: every call of Delete and Create names the hostname; Delete has the
\* value of the first listed A record of the hostname, Create the IP of this
\* cycle's lookup; every request that changes a record is for type A and the
\* hostname, with the same values; the provider holds the records of other
\* hostnames and of other types it held at the start, and no others.
C18_TargetOnly ==
  /\ \A k \in 1..Len(calls) :
       /\ calls[k].record = dnsRecord
       /\ calls[k].op = "Delete" =>
            (ListedMatch # {} /\ calls[k].value = records[FirstListed].Value)
       /\ calls[k].op = "Create" => (ip # <<>> /\ calls[k].value = ip)
  /\ LET rs == Requests
     IN \A k \in 1..Len(rs) :
          Mutating(rs[k]) =>
            /\ rs[k].type = "A" /\ rs[k].record = dnsRecord
            /\ rs[k].cmd = "dns-remove_record" =>
                 (ListedMatch # {} /\ rs[k].value = records[FirstListed].Value)
            /\ rs[k].cmd = "dns-add_record" => rs[k].value = ip
  /\ \A i \in 1..Len(store0) :
       Foreign(store0[i]) => Holds(store, store0[i])
  /\ \A i \in 1..Len(store) :
       Foreign(store[i]) => Holds(store0, store[i])

\* two cycles have changed the records of the hostname: the first created its
\* A record, the second replaced it; the A record of the other hostname and
\* the CNAME record held at the start are still there
C18_Witness ==
  /\ cycle >= 2 /\ Returned /\ Len(calls) = 2 /\ err = Nil /\ ~dryRun
  /\ calls[1].op = "Delete" /\ calls[2].op = "Create"
  /\ store0 = << Rec("A", Other, IPb), Rec("CNAME", Target, IPb) >>
  /\ Holds(store, Rec("A", Other, IPb))
  /\ Holds(store, Rec("CNAME", Target, IPb))
  /\ Holds(store, Rec("A", Target, ip))
  /\ Len(store) = 3

\* the provider holds the A record (hostname, public IP) as the first A record
\* of the hostname, and the cycle at hand has called neither Delete nor Create
\* and has no error
Converged ==
  /\ stable # <<>>
  /\ HeldForTarget # {}
  /\ store[CHOOSE i \in HeldForTarget : \A j \in HeldForTarget : i <= j].Value
       = stable
  /\ runpc \notin { "Delete", "Create" }
  /\ calls = <<>> /\ err = Nil

\* C16: in the interval mode with dry-run off, from the moment on from which
\* the lookup answers one IP and no lookup and no call fails, the provider
\* eventually holds the A record (hostname, IP) for good and every cycle from
\* then on calls neither Delete nor Create and returns no error; and such
\* cycles keep coming.
C16_Converges ==
  /\ (stable # <<>>) ~> [](Converged /\ Holds(store, Rec("A", dnsRecord, stable)))
  /\ (stable # <<>>) ~> (Converged /\ runpc = "ret" /\ ip = stable)

\* calls failed, the Create after a successful Delete among them, and two
\* records of the hostname had other addresses; the record is there now
C16_Witness ==
  /\ Converged /\ runpc = "ret" /\ ip = stable
  /\ Holds(store, Rec("A", dnsRecord, stable))
  /\ Cardinality(HeldForTarget) = 1
  /\ \A i \in 1..Len(store0) : store0[i].Value # stable
  /\ Cardinality({ i \in 1..Len(store0) : ~Foreign(store0[i]) }) = 2
  /\ \E k \in 1..Len(reqs) : reqs[k].cmd = "dns-list_records"

\* a request that got no answer in time
TimedOut(r) == r.res.net = "timeout"

\* C17: a cycle that has been started returns; a request that timed out is
\* the last one of its cycle, and the cycle has returned with an error.
\* (A list answer with a null element makes Run panic: the cycle does not
\* return, the process ends in it.)
C17_Returns ==
  /\ InProgress ~> (runpc = "ret")
  /\ [](\A k \in 1..Len(reqs) :
          TimedOut(reqs[k]) =>
            (k = Len(reqs) /\ runpc \in { "ret", "idle" } /\ err # Nil))

\* C19: with dry-run off, after a cycle that returned no error, a Run with
\* the same IP on the list of the records the provider holds now returns at
\* once: it calls neither Delete nor Create.  (After a cycle that replaced
\* the first of two stale A records of the hostname the second one is listed
\* first, and the next cycle replaces again.)
C19_Idempotent ==
  (~dryRun /\ Returned /\ err = Nil) =>
    Decide(store, Match(store, dnsRecord), ip) = "ret"

====
